---------------------------- MODULE Spec2Model ----------------------------
(***************************************************************************)
(* Model of apps/common/middleware.py: five response middlewares and the   *)
(* safe_query_string context manager.                                      *)
(*                                                                         *)
(* Strings are sequences of one-character strings, so that slicing,        *)
(* prefix/suffix tests, stripping, the two regular expressions and         *)
(* iri_to_uri are computed character by character as the code does.        *)
(***************************************************************************)
EXTENDS Integers, Sequences, FiniteSets

VARIABLES
    request,      \* [path_info, prefix, QUERY_STRING, authenticated]
    urlconf,      \* the set of path_info values the URLconf resolves
    users,        \* User table: set of usernames
    groups,       \* Group table: set of [id, url]
    aliases,      \* GroupAlias table: set of [url, alias], alias a Group id
    response0,    \* the response the view produced for this request
    response,     \* the response as rewritten so far
    applied,      \* the middlewares that have processed it, in order
    block,        \* outcome of the last bare use of safe_query_string
    hops,         \* number of redirects the client has followed
    visited,      \* paths the client has requested in this chase
    rewriter,     \* the middleware that rewrote the response, or "none"
    issuers,      \* middlewares that issued the redirects followed so far
    looped        \* TRUE once the client is sent to a path it already asked

vars == <<request, urlconf, users, groups, aliases, response0, response,
          applied, block, hops, visited, rewriter, issuers, looped>>

----------------------------------------------------------------------------
(* Bounds of the model *)

MaxTail == 3

MaxHops == 3

----------------------------------------------------------------------------
(* String helpers: Python str operations used by the module *)

\* s.startswith(p)
StartsWith(s, p) == Len(s) >= Len(p) /\ SubSeq(s, 1, Len(p)) = p

\* s.endswith(c) for a single character c
EndsWith(s, c) == Len(s) >= 1 /\ s[Len(s)] = c

\* s[:-1]
ButLast(s) == SubSeq(s, 1, Len(s) - 1)

\* s[n:]
From(s, n) == SubSeq(s, n + 1, Len(s))

RECURSIVE LStrip(_, _)
LStrip(s, c) == IF Len(s) >= 1 /\ s[1] = c THEN LStrip(Tail(s), c) ELSE s

RECURSIVE RStrip(_, _)
RStrip(s, c) == IF EndsWith(s, c) THEN RStrip(ButLast(s), c) ELSE s

\* s.strip(c)
Strip(s, c) == RStrip(LStrip(s, c), c)

LowerChar(c) == IF c = "A" THEN "a" ELSE IF c = "B" THEN "b" ELSE c

Lower(s) == [i \in 1..Len(s) |-> LowerChar(s[i])]

\* field__iexact=value
IExact(field, value) == Lower(field) = Lower(value)

Digits == {"0", "1", "2", "3", "4", "5", "6", "7", "8", "9"}

HasChar(s, c) == \E i \in 1..Len(s) : s[i] = c

RECURSIVE DigitRun(_)
\* length of the longest run of digits s starts with
DigitRun(s) == IF Len(s) >= 1 /\ s[1] \in Digits THEN 1 + DigitRun(Tail(s)) ELSE 0

RECURSIVE Find(_, _, _)
\* index of the first c in s at or after i, 0 if there is none
Find(s, c, i) == IF i > Len(s) THEN 0 ELSE IF s[i] = c THEN i ELSE Find(s, c, i + 1)

----------------------------------------------------------------------------
(* django.utils.encoding.iri_to_uri: percent-encode all but the safe set *)

SafeChars == {"/", "#", "%", "[", "]", "=", ":", ";", "$", "&", "(", ")",
              "+", ",", "!", "?", "*", "@", "'", "~", "_", ".", "-"}

Alnum == Digits \cup {"a", "b", "g", "o", "p", "q", "r", "u", "x", "A", "B",
                      "C", "D", "E", "F"}

PercentEncode(c) ==
    IF c \in SafeChars \cup Alnum THEN <<c>>
    ELSE IF c = " " THEN <<"%", "2", "0">>
    ELSE IF c = "<" THEN <<"%", "3", "C">>
    ELSE <<"%", "5", "E">>                      \* "^"

RECURSIVE iri_to_uri(_)
iri_to_uri(iri) ==
    IF iri = <<>> THEN <<>> ELSE PercentEncode(Head(iri)) \o iri_to_uri(Tail(iri))

----------------------------------------------------------------------------
(* The request, the URLconf and the three tables *)

\* request.path: path_info with the app/locale prefix that was munged off it
Path(req) == req.prefix \o req.path_info

\* bool(request.GET): QueryDict(QUERY_STRING) has a key for every non-empty
\* piece between the separators
GET(req) == \E i \in 1..Len(req.QUERY_STRING) : req.QUERY_STRING[i] \notin {"&", ";"}

is_valid_path(path) == path \in urlconf

GROUP == <<"/", "g", "r", "o", "u", "p", "/">>

\* reverse('group', args=[url])
reverse(req, url) == req.prefix \o GROUP \o url

\* Mutant: the lookup is username=name, an exact match
UserExists_Exact(name) == \E u \in users : u = name

\* User.objects.filter(username__iexact=name).exists()
UserExists(name) == \E u \in users : IExact(u, name)

\* Group.objects.filter(url=url).exists()
GroupExists(url) == \E g \in groups : g.url = url

\* GroupAlias.objects.filter(url=url).exists()
GroupAliasExists(url) == \E a \in aliases : a.url = url

\* Mutant: the url of the alias itself instead of that of its group
AliasedGroupUrl_Own(url) == url

\* GroupAlias.objects.get(url=url).alias.url
AliasedGroupUrl(url) ==
    LET group_alias == CHOOSE a \in aliases : a.url = url
        group == CHOOSE g \in groups : g.id = group_alias.alias
    IN  group.url

----------------------------------------------------------------------------
(* Responses *)

NoLocation == <<>>

HttpResponse == [kind |-> "HttpResponse", status_code |-> 200,
                 template |-> 0, location |-> NoLocation]

HttpResponseNotFound == [kind |-> "HttpResponseNotFound", status_code |-> 404,
                         template |-> 0, location |-> NoLocation]

HttpResponseForbidden == [kind |-> "HttpResponseForbidden", status_code |-> 403,
                          template |-> 0, location |-> NoLocation]

HttpResponseNotAllowed == [kind |-> "HttpResponseNotAllowed", status_code |-> 405,
                           template |-> 0, location |-> NoLocation]

HttpResponseRedirect(url) == [kind |-> "HttpResponseRedirect", status_code |-> 302,
                              template |-> 0, location |-> url]

HttpResponsePermanentRedirect(url) ==
    [kind |-> "HttpResponsePermanentRedirect", status_code |-> 301,
     template |-> 0, location |-> url]

\* error_page(request, template, status=...): the <template>.html page
error_page(req, template, status) ==
    [kind |-> "error_page", status_code |-> status,
     template |-> template, location |-> NoLocation]

----------------------------------------------------------------------------
(* safe_query_string *)

\* Mutant: the query string is left raw inside the block
safe_query_string_enter_Raw(req) == req

\* entering the with-block: request.META['QUERY_STRING'] = iri_to_uri(qs)
safe_query_string_enter(req) ==
    [req EXCEPT !.QUERY_STRING = iri_to_uri(req.QUERY_STRING)]

\* Mutant: no finally clause, the iri_to_uri form stays in the request
safe_query_string_exit_Keeps(req, qs) == req

\* the finally clause: request.META['QUERY_STRING'] = qs
safe_query_string_exit(req, qs) == [req EXCEPT !.QUERY_STRING = qs]

\* if request.GET: with safe_query_string(request):
\*                     newurl += '?' + request.META['QUERY_STRING']
\* Gives the url and the request as the statement leaves it.
AddQueryString(req, newurl) ==
    IF GET(req)
    THEN LET qs == req.QUERY_STRING
             inside == safe_query_string_enter(req)
         IN  [url |-> newurl \o <<"?">> \o inside.QUERY_STRING,
              request |-> safe_query_string_exit(inside, qs)]
    ELSE [url |-> newurl, request |-> req]

----------------------------------------------------------------------------
(* The five middlewares.  Each gives the response process_response returns *)
(* and the request as process_response leaves it.                          *)

\* Mutant: an authenticated user is sent a 500, as the log message has it
PermissionDeniedMiddleware_Sends500(req, resp) ==
    IF resp.kind \in {"HttpResponseForbidden", "HttpResponseNotAllowed"}
    THEN [response |-> error_page(req, 500, IF req.authenticated THEN 500
                                            ELSE resp.status_code),
          request |-> req]
    ELSE [response |-> resp, request |-> req]

PermissionDeniedMiddleware(req, resp) ==
    IF resp.kind \in {"HttpResponseForbidden", "HttpResponseNotAllowed"}
    THEN \* both branches on request.user.is_authenticated() only log
         [response |-> error_page(req, 500, resp.status_code), request |-> req]
    ELSE [response |-> resp, request |-> req]

\* Mutant: the new url is cut from path_info instead of path
RemoveSlashMiddleware_PathInfo(req, resp) ==
    IF /\ resp.status_code = 404
       /\ EndsWith(req.path_info, "/")
       /\ ~is_valid_path(req.path_info)
       /\ is_valid_path(ButLast(req.path_info))
    THEN LET q == AddQueryString(req, ButLast(req.path_info))
         IN  [response |-> HttpResponsePermanentRedirect(q.url),
              request |-> q.request]
    ELSE [response |-> resp, request |-> req]

\* Mutant: the status code of the response is not looked at
RemoveSlashMiddleware_AnyStatus(req, resp) ==
    IF /\ EndsWith(req.path_info, "/")
       /\ ~is_valid_path(req.path_info)
       /\ is_valid_path(ButLast(req.path_info))
    THEN LET q == AddQueryString(req, ButLast(Path(req)))
         IN  [response |-> HttpResponsePermanentRedirect(q.url),
              request |-> q.request]
    ELSE [response |-> resp, request |-> req]

RemoveSlashMiddleware(req, resp) ==
    IF /\ resp.status_code = 404
       /\ EndsWith(req.path_info, "/")
       /\ ~is_valid_path(req.path_info)
       /\ is_valid_path(ButLast(req.path_info))
    THEN LET q == AddQueryString(req, ButLast(Path(req)))
         IN  [response |-> HttpResponsePermanentRedirect(q.url),
              request |-> q.request]
    ELSE [response |-> resp, request |-> req]

\* Mutant: every client error is redirected, not only a 404
UsernameRedirectionMiddleware_Any4xx(req, resp) ==
    IF /\ resp.status_code >= 400
       /\ ~StartsWith(req.path_info, <<"/", "u", "/">>)
       /\ ~is_valid_path(req.path_info)
       /\ UserExists(Strip(From(req.path_info, 1), "/"))
    THEN LET q == AddQueryString(req, <<"/", "u">> \o req.path_info)
         IN  [response |-> HttpResponseRedirect(q.url), request |-> q.request]
    ELSE [response |-> resp, request |-> req]

UsernameRedirectionMiddleware(req, resp) ==
    IF /\ resp.status_code = 404
       /\ ~StartsWith(req.path_info, <<"/", "u", "/">>)
       /\ ~is_valid_path(req.path_info)
       /\ UserExists(Strip(From(req.path_info, 1), "/"))
    THEN LET q == AddQueryString(req, <<"/", "u">> \o req.path_info)
         IN  [response |-> HttpResponseRedirect(q.url), request |-> q.request]
    ELSE [response |-> resp, request |-> req]

\* Mutant: the id is optional, \d* for \d+
OldGroupMatch_OptionalId(path_info) ==
    LET rest == From(path_info, Len(GROUP))
        d == DigitRun(rest)
        url == From(rest, d + 1)
    IN  [matched |-> /\ StartsWith(path_info, GROUP)
                     /\ Len(rest) > d
                     /\ rest[d + 1] = "-"
                     /\ Len(url) >= 1
                     /\ ~HasChar(url, "/"),
         id |-> SubSeq(rest, 1, d),
         url |-> url]

\* re.match('^/group/(?P<id>\d+)-(?P<url>[^/]+)$', path_info): \d+ is the whole
\* leading run of digits (a shorter one is followed by a digit, not by '-')
OldGroupMatch(path_info) ==
    LET rest == From(path_info, Len(GROUP))
        d == DigitRun(rest)
        url == From(rest, d + 1)
    IN  [matched |-> /\ StartsWith(path_info, GROUP)
                     /\ d >= 1
                     /\ Len(rest) > d
                     /\ rest[d + 1] = "-"
                     /\ Len(url) >= 1
                     /\ ~HasChar(url, "/"),
         id |-> SubSeq(rest, 1, d),
         url |-> url]

\* Mutant: the new url keeps the numeric id
OldGroupRedirectionMiddleware_KeepsId(req, resp) ==
    LET group_url == OldGroupMatch(req.path_info)
    IN  IF /\ resp.status_code = 404
           /\ group_url.matched
           /\ GroupExists(group_url.url)
        THEN LET q == AddQueryString(req,
                          reverse(req, group_url.id \o <<"-">> \o group_url.url))
             IN  [response |-> HttpResponseRedirect(q.url), request |-> q.request]
        ELSE [response |-> resp, request |-> req]

OldGroupRedirectionMiddleware(req, resp) ==
    LET group_url == OldGroupMatch(req.path_info)
    IN  IF /\ resp.status_code = 404
           /\ group_url.matched
           /\ GroupExists(group_url.url)
        THEN LET q == AddQueryString(req, reverse(req, group_url.url))
             IN  [response |-> HttpResponseRedirect(q.url), request |-> q.request]
        ELSE [response |-> resp, request |-> req]

\* re.match('^/group/(?P<url>[^/]+)$', path_info)
GroupAliasMatch(path_info) ==
    LET url == From(path_info, Len(GROUP))
    IN  [matched |-> /\ StartsWith(path_info, GROUP)
                     /\ Len(url) >= 1
                     /\ ~HasChar(url, "/"),
         url |-> url]

GroupAliasRedirectionMiddleware(req, resp) ==
    LET group_url == GroupAliasMatch(req.path_info)
    IN  IF /\ resp.status_code = 404
           /\ group_url.matched
           /\ GroupAliasExists(group_url.url)
        THEN LET q == AddQueryString(req, reverse(req, AliasedGroupUrl(group_url.url)))
             IN  [response |-> HttpResponseRedirect(q.url), request |-> q.request]
        ELSE [response |-> resp, request |-> req]

----------------------------------------------------------------------------
(* Inputs *)

Prefixes == {<<>>, <<"/", "e", "n">>}

Heads == {<<"/">>, <<"/", "u", "/">>, GROUP}

TailChars == {"1", "-", "a", "/"}

Tails == UNION {[1..n -> TailChars] : n \in 0..MaxTail}

PathInfos == {h \o t : h \in Heads, t \in Tails}

QueryStrings == {<<>>, <<"&">>, <<"q", "=", "1">>, <<"q", "=", " ", "^">>}

UserNames == {<<"A">>, <<"1", "-", "a">>}

GroupIds == {1, 2}

GroupUrls == {<<"a">>, <<"1", "-", "a">>}

AliasUrls == {<<"a">>, <<"1", "-", "a">>}

\* Group tables: the id is the primary key
GroupTables ==
    {g \in SUBSET [id : GroupIds, url : GroupUrls] :
        \A x, y \in g : x.id = y.id => x = y}

\* GroupAlias tables over a Group table: url is unique, alias is a foreign key
GroupAliasTables(g) ==
    {a \in SUBSET [url : AliasUrls, alias : {x.id : x \in g}] :
        \A x, y \in a : x.url = y.url => x = y}

Responses == {HttpResponse, HttpResponseNotFound, HttpResponseForbidden,
              HttpResponseNotAllowed}

Handlers == {"PermissionDenied", "RemoveSlash", "UsernameRedirection",
             "OldGroupRedirection", "GroupAliasRedirection"}

NoBlock == [outcome |-> "none", inside |-> <<>>]

\* the part of the state no input decides
InitRun ==
    /\ response = response0
    /\ applied = {}
    /\ rewriter = "none"
    /\ block = NoBlock
    /\ hops = 0
    /\ visited = {Path(request)}
    /\ issuers = {}
    /\ looped = FALSE

\* URLconfs as far as this request can tell them apart.  The root resolver's
\* pattern is '^/', so the empty path never resolves.
UrlConfs(path_info) == SUBSET ({path_info, ButLast(path_info)} \ {<<>>})

Requests(queries, auths) ==
    [path_info : PathInfos, prefix : Prefixes,
     QUERY_STRING : queries, authenticated : auths]

\* 404s, over every URLconf and User table
InitUrls ==
    /\ request \in Requests(QueryStrings, {FALSE})
    /\ response0 = HttpResponseNotFound
    /\ urlconf \in UrlConfs(request.path_info)
    /\ users \in SUBSET UserNames
    /\ groups = {}
    /\ aliases = {}

\* 404s, over every Group and GroupAlias table
InitGroups ==
    /\ request \in Requests({<<>>, <<"q", "=", " ", "^">>}, {FALSE})
    /\ response0 = HttpResponseNotFound
    /\ urlconf = {}
    /\ users = {}
    /\ groups \in GroupTables
    /\ aliases \in GroupAliasTables(groups)

\* every other response, for anonymous and authenticated users, with tables
\* under which many of the paths would be redirected were the response a 404
InitOthers ==
    /\ request \in Requests({<<>>, <<"q", "=", " ", "^">>}, BOOLEAN)
    /\ response0 \in Responses \ {HttpResponseNotFound}
    /\ urlconf \in UrlConfs(request.path_info)
    /\ users = UserNames
    /\ groups = {[id |-> 2, url |-> <<"a">>], [id |-> 1, url |-> <<"1", "-", "a">>]}
    /\ aliases = {[url |-> <<"a">>, alias |-> 1], [url |-> <<"1", "-", "a">>, alias |-> 2]}

Init == (InitUrls \/ InitGroups \/ InitOthers) /\ InitRun

----------------------------------------------------------------------------
(* Actions: the framework hands the response to a middleware *)

ProcessResponse(h, result) ==
    /\ h \notin applied
    /\ response' = result.response
    /\ request' = result.request
    /\ applied' = applied \cup {h}
    /\ rewriter' = IF rewriter = "none" /\ result.response # response
                   THEN h ELSE rewriter
    /\ UNCHANGED <<urlconf, users, groups, aliases, response0, block, hops,
                   visited, issuers, looped>>

PermissionDenied ==
    ProcessResponse("PermissionDenied", PermissionDeniedMiddleware(request, response))

RemoveSlash ==
    ProcessResponse("RemoveSlash", RemoveSlashMiddleware(request, response))

UsernameRedirection ==
    ProcessResponse("UsernameRedirection",
                    UsernameRedirectionMiddleware(request, response))

OldGroupRedirection ==
    ProcessResponse("OldGroupRedirection",
                    OldGroupRedirectionMiddleware(request, response))

GroupAliasRedirection ==
    ProcessResponse("GroupAliasRedirection",
                    GroupAliasRedirectionMiddleware(request, response))

\* a caller runs "with safe_query_string(request): <body>", and the body
\* either completes or raises; the finally clause runs in both cases
UseSafeQueryString ==
    \E raises \in BOOLEAN :
        LET qs == request.QUERY_STRING
            inside == safe_query_string_enter(request)
        IN  /\ block.outcome = "none"
            /\ block' = [outcome |-> IF raises THEN "raised" ELSE "returned",
                         inside |-> inside.QUERY_STRING]
            /\ request' = safe_query_string_exit(inside, qs)
            /\ UNCHANGED <<urlconf, users, groups, aliases, response0, response,
                           applied, hops, visited, rewriter, issuers, looped>>

\* one middleware, or one bare with-block, per request
Next ==
    \/ applied = {} /\ block.outcome = "none" /\ PermissionDenied
    \/ applied = {} /\ block.outcome = "none" /\ RemoveSlash
    \/ applied = {} /\ block.outcome = "none" /\ UsernameRedirection
    \/ applied = {} /\ block.outcome = "none" /\ OldGroupRedirection
    \/ applied = {} /\ block.outcome = "none" /\ GroupAliasRedirection
    \/ applied = {} /\ UseSafeQueryString

Spec == Init /\ [][Next]_vars

----------------------------------------------------------------------------
(* The whole pipeline: the framework runs all five middlewares on a        *)
(* response, in the order the settings list them (any order here), and the *)
(* client follows the redirect it gets.                                    *)

PipelinePaths ==
    {<<"/", "a", "/">>, <<"/", "1", "-", "a">>, <<"/", "u", "/", "a">>,
     GROUP \o <<"a">>, GROUP \o <<"a", "/">>, GROUP \o <<"1", "-", "a">>}

\* URLconfs as far as the chase from this request can tell them apart
PipelineUrlConfs(path_info) ==
    SUBSET ({path_info, ButLast(path_info), <<"/", "u">> \o ButLast(path_info)}
                \ {<<>>})

InitPipeline ==
    /\ request \in [path_info : PipelinePaths, prefix : {<<"/", "e", "n">>},
                     QUERY_STRING : {<<>>, <<"q", "=", " ", "^">>},
                     authenticated : {FALSE}]
    /\ response0 \in {HttpResponseNotFound, HttpResponseForbidden}
    /\ urlconf \in PipelineUrlConfs(request.path_info)
    /\ users \in {{}, UserNames}
    /\ groups \in GroupTables
    /\ aliases \in GroupAliasTables(groups)
    /\ InitRun

Redirects == {"HttpResponseRedirect", "HttpResponsePermanentRedirect"}

\* the request a client sends for a Location: the path up to the first '?',
\* the query string after it; the app/locale prefix is munged off path_info
RequestFor(location, prefix) ==
    LET q == Find(location, "?", 1)
        path == IF q = 0 THEN location ELSE SubSeq(location, 1, q - 1)
        query == IF q = 0 THEN <<>> ELSE From(location, q)
        munged == prefix # <<>> /\ StartsWith(path, prefix)
    IN  [path_info |-> IF munged THEN From(path, Len(prefix)) ELSE path,
         prefix |-> IF munged THEN prefix ELSE <<>>,
         QUERY_STRING |-> query,
         authenticated |-> FALSE]

\* the client requests the Location it was given, and the view answers 404
Follow ==
    LET next == RequestFor(response.location, request.prefix)
    IN  /\ applied = Handlers
        /\ response.kind \in Redirects
        /\ hops < MaxHops
        /\ ~looped
        /\ request' = next
        /\ response0' = HttpResponseNotFound
        /\ response' = HttpResponseNotFound
        /\ applied' = {}
        /\ rewriter' = "none"
        /\ hops' = hops + 1
        /\ visited' = visited \cup {Path(next)}
        /\ issuers' = issuers \cup {rewriter}
        /\ looped' = (Path(next) \in visited)
        /\ UNCHANGED <<urlconf, users, groups, aliases, block>>

NextPipeline ==
    \/ PermissionDenied
    \/ RemoveSlash
    \/ UsernameRedirection
    \/ OldGroupRedirection
    \/ GroupAliasRedirection
    \/ Follow

SpecPipeline == InitPipeline /\ [][NextPipeline]_vars

----------------------------------------------------------------------------
(* Properties of one middleware applied to a response (specification Spec) *)

Only(h) == applied = {h}

\* the Location is newurl, with or without a query string after it
RedirectsTo(newurl) ==
    \/ response.location = newurl
    \/ StartsWith(response.location, newurl \o <<"?">>)

\* C1: PermissionDeniedMiddleware turns every HttpResponseForbidden and every
\* HttpResponseNotAllowed, for authenticated and anonymous users alike, into
\* the 500 template's error page with the original status code (403 or 405,
\* never 500), and returns every other response as it is.
C1_PermissionDenied ==
    Only("PermissionDenied") =>
        IF response0.kind \in {"HttpResponseForbidden", "HttpResponseNotAllowed"}
        THEN /\ response.kind = "error_page"
             /\ response.template = 500
             /\ response.status_code = response0.status_code
             /\ response.status_code \in {403, 405}
        ELSE response = response0

C1_Witness ==
    /\ Only("PermissionDenied")
    /\ request.authenticated
    /\ response0 = HttpResponseNotAllowed
    /\ response.kind = "error_page"
    /\ response.status_code = 405

\* C2: RemoveSlash, UsernameRedirection, OldGroupRedirection and
\* GroupAliasRedirection return a response whose status code is not 404
\* unmodified, whatever the request and the tables.
C2_Only404Rewritten ==
    \A h \in Handlers \ {"PermissionDenied"} :
        (Only(h) /\ response0.status_code # 404) =>
            (response = response0 /\ rewriter = "none")

\* a 403 for /A/ passes through UsernameRedirection although user A exists,
\* and one for /group/1-a passes through the group middlewares although the
\* group and the alias exist
C2_Witness ==
    /\ response0.status_code = 403
    /\ response = response0
    /\ \/ /\ Only("UsernameRedirection")
          /\ UserExists(Strip(From(request.path_info, 1), "/"))
          /\ ~is_valid_path(request.path_info)
          /\ ~StartsWith(request.path_info, <<"/", "u", "/">>)
       \/ /\ Only("GroupAliasRedirection")
          /\ request.path_info = GROUP \o <<"1", "-", "a">>
          /\ GroupAliasExists(<<"1", "-", "a">>)

\* C3: RemoveSlashMiddleware returns a 301 exactly when the response is a
\* 404, path_info ends with '/', path_info is not a valid path and path_info
\* without its last character is one; the target is request.path (not
\* path_info) without its last character; otherwise the response is returned.
C3_RemoveSlash ==
    Only("RemoveSlash") =>
        IF /\ response0.status_code = 404
           /\ Len(request.path_info) >= 1
           /\ request.path_info[Len(request.path_info)] = "/"
           /\ request.path_info \notin urlconf
           /\ SubSeq(request.path_info, 1, Len(request.path_info) - 1) \in urlconf
        THEN /\ response.kind = "HttpResponsePermanentRedirect"
             /\ response.status_code = 301
             /\ RedirectsTo(request.prefix
                            \o SubSeq(request.path_info, 1, Len(request.path_info) - 1))
        ELSE response = response0

C3_Witness ==
    /\ Only("RemoveSlash")
    /\ response.status_code = 301
    /\ request.prefix # <<>>
    /\ request.path_info = GROUP \o <<"a", "/">>
    /\ response.location = request.prefix \o GROUP \o <<"a">>

\* C4: UsernameRedirectionMiddleware returns a 302 to '/u' + path_info exactly
\* when the response is a 404, path_info does not start with '/u/', path_info
\* is not a valid path and a User exists whose username equals,
\* case-insensitively, path_info without its first character and with leading
\* and trailing slashes stripped; otherwise the response is returned.
C4_UsernameRedirection ==
    Only("UsernameRedirection") =>
        IF /\ response0.status_code = 404
           /\ ~StartsWith(request.path_info, <<"/", "u", "/">>)
           /\ request.path_info \notin urlconf
           /\ \E u \in users :
                  Lower(u) = Lower(Strip(Tail(request.path_info), "/"))
        THEN /\ response.kind = "HttpResponseRedirect"
             /\ response.status_code = 302
             /\ RedirectsTo(<<"/", "u">> \o request.path_info)
        ELSE response = response0

\* user "A" is found for /a/: the lookup ignores case and the slashes
C4_Witness ==
    /\ Only("UsernameRedirection")
    /\ request.path_info = <<"/", "a", "/">>
    /\ users = {<<"A">>}
    /\ response.status_code = 302
    /\ response.location = <<"/", "u", "/", "a", "/">>

\* path_info is /group/<d digits>-<url>, url non-empty and free of '/'
IsOldGroupPath(path_info, d, url) ==
    /\ Len(path_info) = Len(GROUP) + d + 1 + Len(url)
    /\ SubSeq(path_info, 1, Len(GROUP)) = GROUP
    /\ \A i \in 1..d : path_info[Len(GROUP) + i] \in Digits
    /\ path_info[Len(GROUP) + d + 1] = "-"
    /\ SubSeq(path_info, Len(GROUP) + d + 2, Len(path_info)) = url
    /\ url # <<>>
    /\ \A i \in 1..Len(url) : url[i] # "/"

\* the urls path_info can name after a numeric id, with a Group of that url
OldGroupTargets ==
    {g.url : g \in {x \in groups :
        \E d \in 1..Len(request.path_info) :
            IsOldGroupPath(request.path_info, d, x.url)}}

\* C5: OldGroupRedirectionMiddleware returns a 302 to the 'group' URL of <url>
\* exactly when the response is a 404, the whole path_info is
\* /group/<digits>-<url> and a Group with exactly that url exists, whatever
\* the ids of the groups; otherwise the response is returned.
C5_OldGroupRedirection ==
    Only("OldGroupRedirection") =>
        IF response0.status_code = 404 /\ OldGroupTargets # {}
        THEN /\ response.kind = "HttpResponseRedirect"
             /\ response.status_code = 302
             /\ \E url \in OldGroupTargets :
                    RedirectsTo(request.prefix \o GROUP \o url)
        ELSE response = response0

\* /group/1-a is redirected to /group/a although the only group has id 2
C5_Witness ==
    /\ Only("OldGroupRedirection")
    /\ request.path_info = GROUP \o <<"1", "-", "a">>
    /\ groups = {[id |-> 2, url |-> <<"a">>]}
    /\ response.status_code = 302
    /\ response.location = request.prefix \o GROUP \o <<"a">>

\* the GroupAlias rows path_info names: path_info is /group/<url>
NamedAliases ==
    {a \in aliases :
        /\ request.path_info = GROUP \o a.url
        /\ a.url # <<>>
        /\ \A i \in 1..Len(a.url) : a.url[i] # "/"}

\* C6: GroupAliasRedirectionMiddleware returns a 302 to the 'group' URL of
\* the Group the alias points to exactly when the response is a 404, the
\* whole path_info is /group/<url> and a GroupAlias with exactly that url
\* exists; otherwise the response is returned.
C6_GroupAliasRedirection ==
    Only("GroupAliasRedirection") =>
        IF response0.status_code = 404 /\ NamedAliases # {}
        THEN /\ response.kind = "HttpResponseRedirect"
             /\ response.status_code = 302
             /\ \E a \in NamedAliases : \E g \in groups :
                    /\ g.id = a.alias
                    /\ RedirectsTo(request.prefix \o GROUP \o g.url)
        ELSE response = response0

\* the alias "a" of the group "1-a": /group/a is redirected to /group/1-a
C6_Witness ==
    /\ Only("GroupAliasRedirection")
    /\ request.path_info = GROUP \o <<"a">>
    /\ [url |-> <<"a">>, alias |-> 1] \in aliases
    /\ [id |-> 1, url |-> <<"1", "-", "a">>] \in groups
    /\ response.status_code = 302
    /\ response.location = request.prefix \o GROUP \o <<"1", "-", "a">>

\* characters iri_to_uri never leaves in its result
Unsafe == {" ", "<", "^"}

\* C7: whenever one of the four redirecting middlewares redirects, the
\* Location ends with '?' and iri_to_uri of the original QUERY_STRING when
\* request.GET is non-empty, and has no '?' when request.GET is empty; the raw
\* query string is never what follows the '?' unless it is already a URI.
C7_QueryStringCarried ==
    (Cardinality(applied) = 1 /\ response.kind \in Redirects) =>
        LET location == response.location
            q == Find(location, "?", 1)
        IN  IF \E i \in 1..Len(request.QUERY_STRING) :
                   request.QUERY_STRING[i] \notin {"&", ";"}
            THEN /\ q > 0
                 /\ SubSeq(location, q + 1, Len(location))
                        = iri_to_uri(request.QUERY_STRING)
                 /\ \A i \in 1..Len(location) : location[i] \notin Unsafe
            ELSE q = 0

\* "q= ^" arrives as "?q=%20%5E" behind the new url
C7_Witness ==
    /\ Cardinality(applied) = 1
    /\ response.status_code = 301
    /\ request.QUERY_STRING = <<"q", "=", " ", "^">>
    /\ response.location = ButLast(Path(request))
            \o <<"?", "q", "=", "%", "2", "0", "%", "5", "E">>

\* C8: safe_query_string puts the iri_to_uri form in QUERY_STRING only inside
\* the with-block and puts the original back when the block is left, whether
\* it completes or raises; so every process_response leaves QUERY_STRING (and
\* the rest of the request) as it found it.
C8_QueryStringRestored ==
    [][/\ request' = request
       /\ block'.outcome # "none" =>
              block'.inside = iri_to_uri(request.QUERY_STRING)]_vars

\* a block that raised saw "q=%20%5E" and left "q= ^" behind; a redirect
\* carried the query string and left the request's own untouched
C8_Witness ==
    /\ request.QUERY_STRING = <<"q", "=", " ", "^">>
    /\ \/ /\ block.outcome = "raised"
          /\ block.inside = <<"q", "=", "%", "2", "0", "%", "5", "E">>
       \/ /\ applied # {}
          /\ response.kind \in Redirects
          /\ HasChar(response.location, "?")

----------------------------------------------------------------------------
(* Properties of the pipeline (specification SpecPipeline) *)

\* what middleware h alone returns for the view's response
Alone(h) ==
    CASE h = "PermissionDenied" ->
            PermissionDeniedMiddleware(request, response0).response
      [] h = "RemoveSlash" ->
            RemoveSlashMiddleware(request, response0).response
      [] h = "UsernameRedirection" ->
            UsernameRedirectionMiddleware(request, response0).response
      [] h = "OldGroupRedirection" ->
            OldGroupRedirectionMiddleware(request, response0).response
      [] h = "GroupAliasRedirection" ->
            GroupAliasRedirectionMiddleware(request, response0).response

\* the middlewares that rewrite the view's response when applied to it
Rewriting == {h \in Handlers : Alone(h) # response0}

\* the five applied in the order of the source file
InFileOrder ==
    LET r1 == PermissionDeniedMiddleware(request, response0).response
        r2 == RemoveSlashMiddleware(request, r1).response
        r3 == UsernameRedirectionMiddleware(request, r2).response
        r4 == OldGroupRedirectionMiddleware(request, r3).response
    IN  GroupAliasRedirectionMiddleware(request, r4).response

\* C9 as stated: the five middlewares applied one after the other give the
\* same final response in whatever order they are applied.
C9_OrderIndependent == (applied = Handlers) => (response = InFileOrder)

\* C9 as amended: the final response is the one the first applied middleware
\* that rewrites the view's response gives for it (every later middleware
\* returns it untouched), and the view's response when none rewrites it; so
\* the order is immaterial whenever at most one middleware rewrites.
C9_FirstRewriterWins ==
    /\ rewriter = "none" =>
           (response = response0 /\ applied \cap Rewriting = {})
    /\ rewriter # "none" =>
           (rewriter \in applied \cap Rewriting /\ response = Alone(rewriter))
    /\ (applied = Handlers /\ Cardinality(Rewriting) <= 1) =>
           response = InFileOrder

\* a 404 for /group/1-a that OldGroupRedirection would send to /group/a was
\* sent to /group/1-a by GroupAliasRedirection, which came first
C9_Witness ==
    /\ applied = Handlers
    /\ request.path_info = GROUP \o <<"1", "-", "a">>
    /\ {"OldGroupRedirection", "GroupAliasRedirection"} \subseteq Rewriting
    /\ rewriter = "GroupAliasRedirection"
    /\ response = Alone("GroupAliasRedirection")
    /\ response # Alone("OldGroupRedirection")

\* the request the client sends next, if it follows this response
NextRequest == RequestFor(response.location, request.prefix)

\* a target of UsernameRedirection starts with '/u/' and UsernameRedirection
\* does not redirect it
UsernameTargetIsFinal ==
    rewriter = "UsernameRedirection" =>
        /\ StartsWith(NextRequest.path_info, <<"/", "u", "/">>)
        /\ UsernameRedirectionMiddleware(NextRequest, HttpResponseNotFound).response
               = HttpResponseNotFound

\* C10 as stated: following the redirects, with every request answered by a
\* 404, never brings the client back to a path it has requested; a target of
\* UsernameRedirection starts with '/u/' and is not redirected by it again;
\* GroupAliasRedirection never redirects a path to itself.
C10_NeverLoops ==
    /\ ~looped
    /\ UsernameTargetIsFinal
    /\ rewriter = "GroupAliasRedirection" => Path(NextRequest) # Path(request)

\* C10 as amended: the client comes back to a path it has requested only
\* through a redirect of GroupAliasRedirection; the targets of RemoveSlash
\* and OldGroupRedirection are shorter than the path requested; a target of
\* UsernameRedirection starts with '/u/' and is not redirected by it again;
\* GroupAliasRedirection redirects a path to itself exactly when the alias has
\* the url of the group it points to.
C10_LoopsOnlyThroughAliases ==
    /\ looped => "GroupAliasRedirection" \in issuers
    /\ rewriter \in {"RemoveSlash", "OldGroupRedirection"} =>
           Len(Path(NextRequest)) < Len(Path(request))
    /\ UsernameTargetIsFinal
    /\ rewriter = "GroupAliasRedirection" =>
           ((Path(NextRequest) = Path(request))
               <=> \E a \in aliases : \E g \in groups :
                      /\ request.path_info = GROUP \o a.url
                      /\ g.id = a.alias
                      /\ g.url = a.url)

\* the alias "a" of the group "a" sent /group/a to /group/a, and the client
\* asked for it again
C10_Witness ==
    /\ looped
    /\ hops = 1
    /\ issuers = {"GroupAliasRedirection"}
    /\ request.path_info = GROUP \o <<"a">>
    /\ \E a \in aliases : \E g \in groups :
           a.url = <<"a">> /\ g.id = a.alias /\ g.url = <<"a">>

============================================================================
